---- MODULE Spec2Model ----
(***************************************************************************)
(* A model of the digits comparison pipeline: DigitsDataLoader.load_data   *)
(* (src/data_loader.py), the two model wrappers (src/models), the three    *)
(* chart operations of DataVisualizer (src/visualizer.py) and main()       *)
(* (src/main.py).                                                          *)
(*                                                                         *)
(* The numerical routines of scikit-learn, scipy and matplotlib are not    *)
(* part of the repository.  They are modelled by their documented          *)
(* behaviour at the call sites: argument validation, the shape of what     *)
(* they return and the exceptions they raise.  A fitted estimator is a     *)
(* black box, so its outcome is a nondeterministic choice.                 *)
(***************************************************************************)
EXTENDS Integers, Sequences, FiniteSets, Bags, TLC

\* ---------------------------------------------------------------- bounds

\* Samples in the bundled dataset (load_digits has 1797).
NSamples == 3

\* Class labels are 0..NClasses-1 (the digits have 10).
NClasses == 2

\* Calls of load_data on one loader object.
MaxLoads == 2

\* Clusters of the clusterers the model builds (KMeansClusterer() has 10).
NClusters == 2

\* Longest array handed to a direct call of KMeansClusterer.train/accuracy.
MaxPoints == 3

\* Longest array handed to a direct call of plot_simple_clusters.
ChartPoints == 4

\* Cluster indices in such an array are 0..ChartClusters-1.
ChartClusters == 3

\* ---------------------------------------------------- program constants

\* Raw features per sample of load_digits: 8x8 images.
RawFeatureDim == 64

\* The literal of "for i in range(10)" in KMeansClusterer.accuracy.
VoteRange == 10

Classes == 0 .. (NClasses - 1)

\* A raw 64-feature row is an abstract identity.
RawRows == 0 .. 1

Min(a, b) == IF a <= b THEN a ELSE b

Range(s) == { s[i] : i \in 1 .. Len(s) }

\* ceil(num / den) for num >= 0, den > 0
Ceil(num, den) == (num + den - 1) \div den

\* ------------------------------------------------------------- inputs

\* A number as Python sees it: kind "i" is an int (den = 1), kind "f" a
\* float num/den.
IntArg(v) == [kind |-> "i", num |-> v, den |-> 1]
FloatArg(n, d) == [kind |-> "f", num |-> n, den |-> d]

\* test_size arguments: 0 and 1 as int and as float, fractions inside (0,1),
\* an absolute count.
TestSizeInputs ==
    { IntArg(0), IntArg(1), IntArg(2),
      FloatArg(0, 1), FloatArg(3, 10), FloatArg(9, 10), FloatArg(1, 1) }

\* n_components arguments: below range, zero, in range, above the raw
\* feature dimension.
NComponentsInputs == { -1, 0, 1, 2, RawFeatureDim + 1 }

RandomStateInputs == { 0, 42 }

\* __init__ stores its arguments without looking at them.
DigitsDataLoader(n_components, test_size, random_state) ==
    [n_components |-> n_components,
     test_size    |-> test_size,
     random_state |-> random_state]

\* DigitsDataLoader(): n_components=2, test_size=0.3, random_state=42
DefaultLoader == DigitsDataLoader(2, FloatArg(3, 10), 42)

LoaderInputs ==
    { DigitsDataLoader(k, t, s) :
        k \in NComponentsInputs, t \in TestSizeInputs, s \in RandomStateInputs }

\* ------------------------------------------------------------- state

VARIABLES
    pc,          \* position of the running call
    done,        \* history: the stages that have completed, in order
    exc,         \* the exception that ended the run, "" if none
    loader,      \* the DigitsDataLoader object (its three fields)
    digits,      \* what load_digits returns: [data, target]
    np_random,   \* numpy's process-wide generator state
    X_reduced,   \* load_data local
    X_scaled,    \* load_data local / return value
    ind_train,   \* train_test_split: sample indices drawn into Train
    ind_test,    \* train_test_split: sample indices drawn into Test
    X_train, X_test, y_train, y_test,   \* load_data return values
    loads,       \* calls of load_data started on the loader
    prev,        \* the previous call's return value (history)
    n_clusters,  \* KMeansClusterer: the n_clusters its KMeans was built with
    km_fitted,   \* KMeans: fitted centres, as the map point -> cluster index
    labels_,     \* KMeans.labels_: cluster index of each training point
    eval_X,      \* KMeansClusterer.accuracy: the points argument
    eval_y,      \* KMeansClusterer.accuracy: the true-labels argument
    vote_labels, \* KMeansClusterer.accuracy: its local array labels
    acc_km,      \* what KMeansClusterer.accuracy returned
    lr_model,    \* LogisticRegression: fitted, as the map point -> label
    acc_lr,      \* what LogisticRegressionClassifier.accuracy returned
    kmeans_labels,  \* main: kmeans.predict(X_scaled); a chart's argument
    fs,          \* the paths that exist under the working directory
    open_figs,   \* pyplot: figures created and not closed
    chart,       \* the chart operation running or last run
    output_path, \* the chart operation's output_path ("" is None)
    clusters_left,  \* plot_simple_clusters: cluster ids the loop has yet to draw
    drawn,       \* cluster ids whose points the chart has scattered
    outlined,    \* cluster ids whose hull outline the chart has drawn
    report       \* the comparison the report file states

loaderVars == <<loader, digits, np_random, X_reduced, X_scaled, ind_train,
                ind_test, X_train, X_test, y_train, y_test, loads, prev>>

kmVars == <<n_clusters, km_fitted, labels_, eval_X, eval_y, vote_labels, acc_km>>

mainVars == <<lr_model, acc_lr, kmeans_labels, fs, open_figs, chart,
              output_path, clusters_left, drawn, outlined, report>>

vars == <<pc, done, exc, loaderVars, kmVars, mainVars>>

\* ------------------------------------------- load_data: library steps

\* Variant of PCAAccepts: a PCA that clamps any count instead of rejecting it.
PCAAcceptsAnyCount(k, n_samples, n_features) == TRUE

\* PCA(n_components=k).fit_transform(X): an integer k outside
\* 0..min(n_samples, n_features) is a ValueError; otherwise each row is
\* projected to k coordinates (k = 0 gives rows with no feature).
PCAAccepts(k, n_samples, n_features) ==
    0 <= k /\ k <= Min(n_samples, n_features)

ProjectRow(raw, k) == [src |-> raw, dims |-> k, std |-> FALSE]

\* StandardScaler().fit_transform(X): rejects an array with no feature column,
\* otherwise rescales each row in place of itself.
ScalerAccepts(X) == \A i \in 1 .. Len(X) : X[i].dims >= 1

ScaleRow(row) == [row EXCEPT !.std = TRUE]

\* train_test_split's validation of test_size (train_size is None): the sizes
\* <<n_train, n_test>>, or <<>> for a ValueError.
ValidateShuffleSplit(n_samples, test_size) ==
    IF \/ test_size.kind = "i" /\ (test_size.num >= n_samples \/ test_size.num <= 0)
       \/ test_size.kind = "f" /\ (test_size.num <= 0 \/ test_size.num >= test_size.den)
    THEN <<>>
    ELSE LET n_test == IF test_size.kind = "f"
                       THEN Ceil(test_size.num * n_samples, test_size.den)
                       ELSE test_size.num
             n_train == n_samples - n_test
         IN  IF n_train = 0 THEN <<>> ELSE <<n_train, n_test>>

\* The generator behind rng.permutation: a linear congruential step stands in
\* for the Mersenne Twister (its high bits are the draw); what matters is
\* that the stream is a function of the seed alone.
LcgNext(s) == (s * 75 + 74) % 65537

Swap(p, i, j) == [p EXCEPT ![i] = p[j], ![j] = p[i]]

\* rng.permutation(n): Fisher-Yates from the last position down.
RECURSIVE Shuffle(_, _, _)
Shuffle(p, i, s) ==
    IF i <= 1 THEN p
    ELSE LET s2 == LcgNext(s)
             j  == ((s2 \div 256) % i) + 1
         IN  Shuffle(Swap(p, i, j), i - 1, s2)

Permutation(seed, n) == Shuffle([i \in 1 .. n |-> i], n, LcgNext(seed))

\* _safe_indexing(a, idx)
Take(a, idx) == [k \in 1 .. Len(idx) |-> a[idx[k]]]

\* Variant of SplitSeed: random_state not passed on, so the process-wide
\* generator seeds the shuffle.
SplitSeedUnseeded == np_random

\* train_test_split(..., random_state=self.random_state): the seed of the
\* shuffle is the loader's own, never the process-wide generator.
SplitSeed == loader.random_state

\* ShuffleSplit._iter_indices: Test is the head of the permutation, Train the
\* n_train entries after it.
TestIndices(perm, n_train, n_test) == SubSeq(perm, 1, n_test)

\* Variant of TrainIndices: Train cut one position early, sharing a sample
\* with Test.
TrainIndicesOverlap(perm, n_train, n_test) ==
    SubSeq(perm, n_test, n_test + n_train - 1)

TrainIndices(perm, n_train, n_test) == SubSeq(perm, n_test + 1, n_test + n_train)

EmptyReturn ==
    [set |-> FALSE, X_train |-> <<>>, X_test |-> <<>>, y_train |-> <<>>,
     y_test |-> <<>>, ind_train |-> <<>>, ind_test |-> <<>>]

\* The tuple load_data returned (with the indices the partition was cut by).
Returned ==
    [set |-> TRUE, X_train |-> X_train, X_test |-> X_test, y_train |-> y_train,
     y_test |-> y_test, ind_train |-> ind_train, ind_test |-> ind_test]

\* ------------------------------------------------ KMeansClusterer

\* A scaled 2-component row of the raw row r.
Row(r) == ScaleRow(ProjectRow(r, 2))

\* A call's outcome: the exception it raised ("" if it returned) and the
\* value it returned, a fraction <<numerator, denominator>>.
NoResult == [raised |-> "", value |-> <<>>]
Value(v) == [raised |-> "", value |-> v]
Raised(type) == [raised |-> type, value |-> <<>>]

\* KMeans.predict(X): the index of the nearest fitted centre, a function of
\* the point alone.
KMeansPredict(fitted, X) == [i \in 1 .. Len(X) |-> fitted[X[i].src]]

\* The outcomes KMeans(n_clusters=k).fit(X) can have: a map from points to
\* cluster indices 0..k-1 (the fit itself is a black box).  Fitted to more
\* distinct points than RawRows holds, the outcomes kept are the maps that
\* put point p in cluster (p + shift) % k: with as many clusters as distinct
\* points each point is a cluster of its own and every index is occupied.
KMeansFits(k, X) ==
    LET points == RawRows \cup { X[i].src : i \in 1 .. Len(X) }
    IN  IF points = RawRows
        THEN [RawRows -> 0 .. (k - 1)]
        ELSE { [p \in points |-> (p + shift) % k] : shift \in 0 .. (k - 1) }

\* scipy.stats.mode(values).mode: the most frequent value, the smallest one
\* on a tie.
Count(values, v) == Cardinality({ i \in 1 .. Len(values) : values[i] = v })

Mode(values) ==
    CHOOSE v \in Range(values) :
        \A w \in Range(values) :
            \/ Count(values, v) > Count(values, w)
            \/ Count(values, v) = Count(values, w) /\ v <= w

\* a[mask] for a boolean mask
Masked(a, mask) ==
    LET idx == { i \in 1 .. Len(mask) : mask[i] }
        nth[k \in 1 .. Cardinality(idx)] ==
            CHOOSE i \in idx : Cardinality({ j \in idx : j < i }) = k - 1
    IN  [k \in 1 .. Cardinality(idx) |-> a[nth[k]]]

\* The loop of KMeansClusterer.accuracy after cluster i: labels[mask] = mode
\* of y_train[mask] where mask = (self.model.labels_ == i), for i = 0..upto-1.
RECURSIVE VoteLabels(_, _, _)
VoteLabels(cluster_of, y, upto) ==
    IF upto = 0 THEN [i \in 1 .. Len(cluster_of) |-> 0]
    ELSE LET before == VoteLabels(cluster_of, y, upto - 1)
             mask   == [i \in 1 .. Len(cluster_of) |-> cluster_of[i] = upto - 1]
         IN  IF \E i \in 1 .. Len(mask) : mask[i]
             THEN LET m == Mode(Masked(y, mask))
                  IN  [i \in 1 .. Len(mask) |-> IF mask[i] THEN m ELSE before[i]]
             ELSE before

\* sklearn.metrics.accuracy_score(y_true, y_pred): the fraction of positions
\* that agree.
AccuracyScore(y_true, y_pred) ==
    << Cardinality({ i \in 1 .. Len(y_true) : y_true[i] = y_pred[i] }), Len(y_true) >>

\* KMeansClusterer.accuracy(X_train, y_train).  The points argument is not
\* read: the cluster indices are self.model.labels_, those of the training
\* points.  y_train[mask] is an IndexError when y_train and the mask differ in
\* length; with no cluster below VoteRange occupied no mask is applied and
\* accuracy_score raises the ValueError for the unequal lengths.
KMeansAccuracy(fitted_labels, X, y) ==
    IF Len(y) # Len(fitted_labels)
    THEN IF \E i \in 1 .. Len(fitted_labels) : fitted_labels[i] < VoteRange
         THEN Raised("IndexError")
         ELSE Raised("ValueError")
    ELSE Value(AccuracyScore(y, VoteLabels(fitted_labels, y, VoteRange)))

\* No report has been written.
NoReport == [acc_lr |-> <<>>, acc_km |-> <<>>, better |-> ""]

\* An exception leaves the running call: nothing below the raise runs.
Raise(type) ==
    /\ pc' = "raised"
    /\ exc' = type

\* ----------------------------------------------------- load_data steps

\* digits = load_digits(); X, y = digits.data, digits.target
LoadDigits ==
    /\ pc = "load_digits"
    /\ pc' = "pca"
    /\ done' = Append(done, "load_digits")
    /\ UNCHANGED <<exc, loaderVars, kmVars>>
    /\ UNCHANGED mainVars

\* pca = PCA(n_components=self.n_components); X_reduced = pca.fit_transform(X)
\* The randomized solver draws from numpy's process-wide generator; which
\* solver runs depends on the installed library, so the draw may or may not
\* happen.
FitPCA ==
    /\ pc = "pca"
    /\ IF PCAAccepts(loader.n_components, Len(digits.data), RawFeatureDim)
       THEN /\ X_reduced' = [i \in 1 .. Len(digits.data) |->
                                ProjectRow(digits.data[i], loader.n_components)]
            /\ np_random' \in {np_random, LcgNext(np_random)}
            /\ pc' = "scale"
            /\ done' = Append(done, "pca")
            /\ exc' = exc
       ELSE /\ Raise("ValueError")
            /\ UNCHANGED <<done, X_reduced, np_random>>
    /\ UNCHANGED <<loader, digits, X_scaled, ind_train, ind_test,
                   X_train, X_test, y_train, y_test, loads, prev, kmVars>>
    /\ UNCHANGED mainVars

\* scaler = StandardScaler(); X_scaled = scaler.fit_transform(X_reduced)
FitScaler ==
    /\ pc = "scale"
    /\ IF ScalerAccepts(X_reduced)
       THEN /\ X_scaled' = [i \in 1 .. Len(X_reduced) |-> ScaleRow(X_reduced[i])]
            /\ pc' = "split"
            /\ done' = Append(done, "scale")
            /\ exc' = exc
       ELSE /\ Raise("ValueError")
            /\ UNCHANGED <<done, X_scaled>>
    /\ UNCHANGED <<loader, digits, np_random, X_reduced, ind_train, ind_test,
                   X_train, X_test, y_train, y_test, loads, prev, kmVars>>
    /\ UNCHANGED mainVars

\* X_train, X_test, y_train, y_test = train_test_split(X_scaled, y,
\*     test_size=self.test_size, random_state=self.random_state)
\* return X_train, X_test, y_train, y_test, X_scaled, y
Split ==
    /\ pc = "split"
    /\ LET n     == Len(X_scaled)
           sizes == ValidateShuffleSplit(n, loader.test_size)
       IN  IF sizes = <<>>
           THEN /\ Raise("ValueError")
                /\ UNCHANGED <<done, ind_train, ind_test,
                               X_train, X_test, y_train, y_test>>
           ELSE LET perm  == Permutation(SplitSeed, n)
                    train == TrainIndices(perm, sizes[1], sizes[2])
                    test  == TestIndices(perm, sizes[1], sizes[2])
                IN  /\ ind_train' = train
                    /\ ind_test' = test
                    /\ X_train' = Take(X_scaled, train)
                    /\ X_test' = Take(X_scaled, test)
                    /\ y_train' = Take(digits.target, train)
                    /\ y_test' = Take(digits.target, test)
                    /\ pc' = "load_returned"
                    /\ done' = Append(done, "split")
                    /\ exc' = exc
    /\ UNCHANGED <<loader, digits, np_random, X_reduced, X_scaled, loads, prev,
                   kmVars>>
    /\ UNCHANGED mainVars

\* A second call of load_data on the same loader object: its locals are
\* fresh, the loader's fields and the process-wide generator are as the first
\* call left them.
LoadAgain ==
    /\ pc = "load_returned"
    /\ loads < MaxLoads
    /\ loads' = loads + 1
    /\ prev' = Returned
    /\ pc' = "load_digits"
    /\ done' = <<>>
    /\ X_reduced' = <<>>
    /\ X_scaled' = <<>>
    /\ ind_train' = <<>>
    /\ ind_test' = <<>>
    /\ X_train' = <<>>
    /\ X_test' = <<>>
    /\ y_train' = <<>>
    /\ y_test' = <<>>
    /\ UNCHANGED <<exc, loader, digits, np_random, kmVars>>
    /\ UNCHANGED mainVars

\* ------------------------------------------- specification: the loader

\* The bundled dataset: the feature rows all alike or alternating, with
\* every labelling.
DataInputs == { [i \in 1 .. NSamples |-> 0], [i \in 1 .. NSamples |-> i % 2] }

Datasets ==
    { [data |-> d, target |-> t] :
        d \in DataInputs, t \in [1 .. NSamples -> Classes] }

InitLocals ==
    /\ done = <<>>
    /\ exc = ""
    /\ np_random = 0
    /\ X_reduced = <<>>
    /\ X_scaled = <<>>
    /\ ind_train = <<>>
    /\ ind_test = <<>>
    /\ X_train = <<>>
    /\ X_test = <<>>
    /\ y_train = <<>>
    /\ y_test = <<>>
    /\ loads = 1
    /\ prev = EmptyReturn

\* Nothing of main() past the load has run.
InitNoMain ==
    /\ lr_model = <<>>
    /\ acc_lr = <<>>
    /\ kmeans_labels = <<>>
    /\ fs = {}
    /\ open_figs = 0
    /\ chart = ""
    /\ output_path = ""
    /\ clusters_left = <<>>
    /\ drawn = {}
    /\ outlined = {}
    /\ report = NoReport

\* No clusterer has been built.
InitNoClusterer ==
    /\ n_clusters = 0
    /\ km_fitted = <<>>
    /\ labels_ = <<>>
    /\ eval_X = <<>>
    /\ eval_y = <<>>
    /\ vote_labels = <<>>
    /\ acc_km = NoResult

\* loader = DigitsDataLoader(...); loader.load_data(), for every dataset and
\* every constructor argument of the input sets.
InitLoader ==
    /\ pc = "load_digits"
    /\ loader \in LoaderInputs
    /\ digits \in Datasets
    /\ InitLocals
    /\ InitNoClusterer
    /\ InitNoMain

NextLoader ==
    \/ LoadDigits
    \/ FitPCA
    \/ FitScaler
    \/ Split
    \/ LoadAgain

SpecLoader == InitLoader /\ [][NextLoader]_vars

\* ------------------------------------------------ clusterer steps

\* KMeansClusterer.train(X): self.model.fit(X).  KMeans refuses fewer samples
\* than clusters; a fit leaves labels_ = the cluster of each training point.
Train ==
    /\ pc = "km_train"
    /\ IF Len(X_train) < n_clusters
       THEN /\ Raise("ValueError")
            /\ UNCHANGED <<done, km_fitted, labels_>>
       ELSE /\ \E f \in KMeansFits(n_clusters, X_train) :
                  /\ km_fitted' = f
                  /\ labels_' = KMeansPredict(f, X_train)
            /\ pc' = "km_trained"
            /\ done' = Append(done, "km_train")
            /\ exc' = exc
    /\ UNCHANGED <<loaderVars, n_clusters, eval_X, eval_y, vote_labels, acc_km>>
    /\ UNCHANGED mainVars

\* KMeansClusterer.accuracy(points, true_labels) on a trained clusterer.
Accuracy(points, true_labels) ==
    /\ pc = "km_trained"
    /\ eval_X' = points
    /\ eval_y' = true_labels
    /\ LET r == KMeansAccuracy(labels_, points, true_labels)
       IN  /\ acc_km' = r
           /\ IF r.raised # ""
              THEN Raise(r.raised) /\ done' = done /\ vote_labels' = <<>>
              ELSE /\ vote_labels' = VoteLabels(labels_, true_labels, VoteRange)
                   /\ pc' = "km_scored"
                   /\ done' = Append(done, "km_accuracy")
                   /\ exc' = exc
    /\ UNCHANGED <<loaderVars, n_clusters, km_fitted, labels_>>
    /\ UNCHANGED mainVars

\* ------------------------------------------ LogisticRegressionClassifier

\* LogisticRegression(max_iter=1000).fit(X, y) refuses labels of a single
\* class; a fit is a map from points to the classes it has seen (a black box).
LogRegAccepts(y) == Cardinality(Range(y)) >= 2

LogRegFits(y) == [RawRows -> Range(y)]

\* LogisticRegressionClassifier.predict(X)
LogRegPredict(fitted, X) == [i \in 1 .. Len(X) |-> fitted[X[i].src]]

\* ------------------------------------------------------ DataVisualizer

\* The first two principal coordinates of the raw row r: four places, three
\* of them on one line.
Coords(r) == << r % 3, r \div 3 >>

\* np.unique(values): the distinct values in ascending order.
RECURSIVE Ascending(_)
Ascending(set) ==
    IF set = {} THEN <<>>
    ELSE LET least == CHOOSE v \in set : \A w \in set : v <= w
         IN  <<least>> \o Ascending(set \ {least})

Unique(values) == Ascending(Range(values))

\* seq[:2]
FirstTwo(seq) == SubSeq(seq, 1, Min(2, Len(seq)))

\* np.sum(kmeans_labels == cluster_id)
ClusterSize(labels, cluster_id) == Count(labels, cluster_id)

\* ConvexHull(points) raises (QhullError) when the points lie on one line or
\* coincide: there is no initial simplex.
Cross(p, q, r) ==
    (q[1] - p[1]) * (r[2] - p[2]) - (q[2] - p[2]) * (r[1] - p[1])

HullFails(X, labels, cluster_id) ==
    LET pts == { Coords(X[i].src) : i \in { k \in 1 .. Len(X) : labels[k] = cluster_id } }
    IN  \A p \in pts, q \in pts, r \in pts : Cross(p, q, r) = 0

\* "if np.sum(mask) > 2:" guards the hull.
HullGuard(labels, cluster_id) == ClusterSize(labels, cluster_id) > 2

\* Variant of HullOutcome: no except clause around the hull.
HullOutcomeNoExcept(X, labels, cluster_id) ==
    IF ~HullGuard(labels, cluster_id) THEN "skipped"
    ELSE IF HullFails(X, labels, cluster_id) THEN "raised"
    ELSE "outlined"

\* Lines 196-211: what becomes of the outline of cluster_id.  Below the
\* guard nothing is tried; "try: ... except: pass" swallows what the hull
\* raises.
HullOutcome(X, labels, cluster_id) ==
    IF ~HullGuard(labels, cluster_id) THEN "skipped"
    ELSE IF HullFails(X, labels, cluster_id) THEN "skipped"
    ELSE "outlined"

\* X_scaled[:, 0] and X_scaled[:, 1] exist, and both models predict on
\* two-column grid points.
GridAccepts(X) == \A i \in 1 .. Len(X) : X[i].dims = 2

\* plot_combined_boundaries, lines 42-56: the grid and both models'
\* predictions on it, before any figure exists.
Grid ==
    /\ pc = "grid"
    /\ IF GridAccepts(X_scaled)
       THEN pc' = "figure" /\ exc' = exc
       ELSE Raise("IndexError")
    /\ UNCHANGED <<done, loaderVars, kmVars, mainVars>>

\* plt.figure(...) / plt.subplots(...): a new figure is open and current.
\* plot_simple_clusters then takes unique_clusters[:2] for its loop.
Figure ==
    /\ pc = "figure"
    /\ open_figs' = open_figs + 1
    /\ clusters_left' = IF chart = "simple"
                        THEN FirstTwo(Unique(kmeans_labels))
                        ELSE <<>>
    /\ drawn' = {}
    /\ outlined' = {}
    /\ pc' = "draw"
    /\ UNCHANGED <<done, exc, loaderVars, kmVars, lr_model, acc_lr,
                   kmeans_labels, fs, chart, output_path, report>>

\* The drawing calls of plot_combined_boundaries (contourf, contour, scatter,
\* titles) and of plot_clusters_scatter (one scatter per cluster, axes,
\* legend): any of them may raise.
Draw ==
    /\ pc = "draw"
    /\ chart \in {"combined", "scatter"}
    /\ \/ /\ pc' = "save"
          /\ drawn' = IF chart = "scatter" THEN Range(kmeans_labels) ELSE drawn
          /\ exc' = exc
       \/ /\ Raise("Exception")
          /\ drawn' = drawn
    /\ UNCHANGED <<done, loaderVars, kmVars, lr_model, acc_lr, kmeans_labels,
                   fs, open_figs, chart, output_path, clusters_left, outlined,
                   report>>

\* plot_simple_clusters, lines 180-193: the scatter of the next cluster of
\* unique_clusters[:2]; it may raise.
ScatterCluster ==
    /\ pc = "draw"
    /\ chart = "simple"
    /\ clusters_left # <<>>
    /\ \/ /\ drawn' = drawn \cup {Head(clusters_left)}
          /\ pc' = "hull"
          /\ exc' = exc
       \/ /\ Raise("Exception")
          /\ drawn' = drawn
    /\ UNCHANGED <<done, loaderVars, kmVars, lr_model, acc_lr, kmeans_labels,
                   fs, open_figs, chart, output_path, clusters_left, outlined,
                   report>>

\* plot_simple_clusters, lines 195-211: the outline of the cluster just
\* scattered, then on to the next cluster.
OutlineCluster ==
    /\ pc = "hull"
    /\ LET cluster_id == Head(clusters_left)
           outcome    == HullOutcome(X_scaled, kmeans_labels, cluster_id)
       IN  IF outcome = "raised"
           THEN /\ Raise("QhullError")
                /\ UNCHANGED <<outlined, clusters_left>>
           ELSE /\ outlined' = IF outcome = "outlined"
                               THEN outlined \cup {cluster_id}
                               ELSE outlined
                /\ clusters_left' = Tail(clusters_left)
                /\ pc' = "draw"
                /\ exc' = exc
    /\ UNCHANGED <<done, loaderVars, kmVars, lr_model, acc_lr,
                   kmeans_labels, fs, open_figs, chart, output_path, drawn,
                   report>>

\* plot_simple_clusters, lines 213-232: spines, arrows, ticks and limits once
\* the loop is over.
Axes ==
    /\ pc = "draw"
    /\ chart = "simple"
    /\ clusters_left = <<>>
    /\ pc' = "save"
    /\ UNCHANGED <<done, exc, loaderVars, kmVars, mainVars>>

\* "if output_path: plt.savefig(output_path, ...) else: plt.show()".
\* savefig raises when the path cannot be written.
Save ==
    /\ pc = "save"
    /\ \/ /\ output_path # ""
          /\ fs' = fs \cup {output_path}
          /\ pc' = "close"
          /\ exc' = exc
       \/ /\ output_path # ""
          /\ Raise("OSError")
          /\ fs' = fs
       \/ /\ output_path = ""
          /\ pc' = "close"
          /\ UNCHANGED <<exc, fs>>
    /\ UNCHANGED <<done, loaderVars, kmVars, lr_model, acc_lr, kmeans_labels,
                   open_figs, chart, output_path, clusters_left, drawn,
                   outlined, report>>

\* plt.close(): the last statement of each chart operation.
Close ==
    /\ pc = "close"
    /\ open_figs' = open_figs - 1
    /\ pc' = "chart_returned"
    /\ done' = Append(done, chart)
    /\ UNCHANGED <<exc, loaderVars, kmVars, lr_model, acc_lr, kmeans_labels,
                   fs, chart, output_path, clusters_left, drawn, outlined,
                   report>>

\* ------------------------------------------------------------- main()

\* "if not os.path.exists(output_dir): os.makedirs(output_dir)"
MakeDirs ==
    /\ pc = "makedirs"
    /\ fs' = fs \cup {"output"}
    /\ pc' = "load_digits"
    /\ UNCHANGED <<done, exc, loaderVars, kmVars, lr_model, acc_lr,
                   kmeans_labels, open_figs, chart, output_path,
                   clusters_left, drawn, outlined, report>>

\* log_reg = LogisticRegressionClassifier(); log_reg.train(X_train, y_train)
LRTrain ==
    /\ pc = "load_returned"
    /\ IF LogRegAccepts(y_train)
       THEN /\ lr_model' \in LogRegFits(y_train)
            /\ pc' = "lr_trained"
            /\ done' = Append(done, "lr_train")
            /\ exc' = exc
       ELSE /\ Raise("ValueError")
            /\ UNCHANGED <<done, lr_model>>
    /\ UNCHANGED <<loaderVars, kmVars, acc_lr, kmeans_labels, fs, open_figs,
                   chart, output_path, clusters_left, drawn, outlined, report>>

\* acc_lr = log_reg.accuracy(X_test, y_test)
LRAccuracy ==
    /\ pc = "lr_trained"
    /\ acc_lr' = AccuracyScore(y_test, LogRegPredict(lr_model, X_test))
    /\ pc' = "km_new"
    /\ done' = Append(done, "lr_accuracy")
    /\ UNCHANGED <<exc, loaderVars, kmVars, lr_model, kmeans_labels, fs,
                   open_figs, chart, output_path, clusters_left, drawn,
                   outlined, report>>

\* kmeans = KMeansClusterer()
NewClusterer ==
    /\ pc = "km_new"
    /\ n_clusters' = NClusters
    /\ pc' = "km_train"
    /\ UNCHANGED <<done, exc, loaderVars, km_fitted, labels_, eval_X, eval_y,
                   vote_labels, acc_km, mainVars>>

\* acc_km = kmeans.accuracy(X_train, y_train)
MainAccuracy == Accuracy(X_train, y_train)

\* kmeans_labels = kmeans.predict(X_scaled)
PredictAll ==
    /\ pc = "km_scored"
    /\ kmeans_labels' = KMeansPredict(km_fitted, X_scaled)
    /\ pc' = "charts"
    /\ UNCHANGED <<done, exc, loaderVars, kmVars, lr_model, acc_lr, fs,
                   open_figs, chart, output_path, clusters_left, drawn,
                   outlined, report>>

\* The chart main calls after `last`, "" when `last` was the third.
ChartAfter(last) ==
    CASE last = "" -> "combined"
      [] last = "combined" -> "scatter"
      [] last = "scatter" -> "simple"
      [] OTHER -> ""

\* DataVisualizer.plot_...(..., output_path=<the chart's file>): the three
\* calls of main, in order.
CallChart ==
    /\ pc \in {"charts", "chart_returned"}
    /\ ChartAfter(chart) # ""
    /\ chart' = ChartAfter(chart)
    /\ output_path' = ChartAfter(chart)
    /\ pc' = IF ChartAfter(chart) = "combined" THEN "grid" ELSE "figure"
    /\ UNCHANGED <<done, exc, loaderVars, kmVars, lr_model, acc_lr,
                   kmeans_labels, fs, open_figs, clusters_left, drawn,
                   outlined, report>>

\* Variant of ReportReady: the report block placed after the first chart
\* call.
ReportReadyAfterAnyChart == pc = "chart_returned"

\* main reaches "with open(results_filename, 'w', ...)" when the third chart
\* call has returned.
ReportReady == pc = "chart_returned" /\ chart = "simple"

\* open(results_filename, 'w'): the file exists from here on, or the open
\* raises.
ReportOpen ==
    /\ ReportReady
    /\ \/ /\ fs' = fs \cup {"results"}
          /\ pc' = "report_write"
          /\ exc' = exc
       \/ /\ Raise("OSError")
          /\ fs' = fs
    /\ UNCHANGED <<done, loaderVars, kmVars, lr_model, acc_lr, kmeans_labels,
                   open_figs, chart, output_path, clusters_left, drawn,
                   outlined, report>>

\* a/b > c/d for fractions with positive denominators
Greater(x, y) == x[1] * y[2] > y[1] * x[2]

\* "diff = acc_lr - acc_km; if diff > 0: Logistic Regression ... else:
\* K-Means ...": the model the comparison line names.
Better(lr, km) == IF Greater(lr, km) THEN "Logistic Regression" ELSE "K-Means"

\* The writes of the report, the comparison line among them, and the end of
\* main.
ReportWrite ==
    /\ pc = "report_write"
    /\ report' = [acc_lr |-> acc_lr, acc_km |-> acc_km.value,
                  better |-> Better(acc_lr, acc_km.value)]
    /\ pc' = "exit"
    /\ done' = Append(done, "report")
    /\ UNCHANGED <<exc, loaderVars, kmVars, lr_model, acc_lr, kmeans_labels,
                   fs, open_figs, chart, output_path, clusters_left, drawn,
                   outlined>>

\* ------------------------------------------- specification: main()

\* main() builds DigitsDataLoader() with its defaults; the pipeline is run
\* for every n_components and random_state of the input sets as well,
\* test_size at its default.
MainLoaderInputs ==
    { DigitsDataLoader(k, DefaultLoader.test_size, s) :
        k \in NComponentsInputs, s \in RandomStateInputs }

Init ==
    /\ pc = "makedirs"
    /\ loader \in MainLoaderInputs
    /\ digits \in Datasets
    /\ InitLocals
    /\ InitNoClusterer
    /\ lr_model = <<>>
    /\ acc_lr = <<>>
    /\ kmeans_labels = <<>>
    /\ fs \in {{}, {"output"}}
    /\ open_figs = 0
    /\ chart = ""
    /\ output_path = ""
    /\ clusters_left = <<>>
    /\ drawn = {}
    /\ outlined = {}
    /\ report = NoReport

Next ==
    \/ MakeDirs
    \/ LoadDigits
    \/ FitPCA
    \/ FitScaler
    \/ Split
    \/ LRTrain
    \/ LRAccuracy
    \/ NewClusterer
    \/ Train
    \/ MainAccuracy
    \/ PredictAll
    \/ CallChart
    \/ Grid
    \/ Figure
    \/ Draw
    \/ ScatterCluster
    \/ OutlineCluster
    \/ Axes
    \/ Save
    \/ Close
    \/ ReportOpen
    \/ ReportWrite

Spec == Init /\ [][Next]_vars

\* ------------------------------- specification: plot_simple_clusters

\* The X_scaled arguments: n points cycling over the four places, or over
\* the three on one line.
ChartPointInputs ==
    UNION { { [i \in 1 .. n |-> Row((i - 1) % 4)],
              [i \in 1 .. n |-> Row((i - 1) % 3)] } : n \in 1 .. ChartPoints }

\* DataVisualizer.plot_simple_clusters(X_scaled, y, kmeans_labels,
\* output_path) called directly: any labelling of the points, with a path or
\* with None.
InitChart ==
    /\ pc = "figure"
    /\ done = <<>>
    /\ exc = ""
    /\ loader = DefaultLoader
    /\ digits = [data |-> <<>>, target |-> <<>>]
    /\ np_random = 0
    /\ X_reduced = <<>>
    /\ X_scaled \in ChartPointInputs
    /\ ind_train = <<>>
    /\ ind_test = <<>>
    /\ X_train = <<>>
    /\ X_test = <<>>
    /\ y_train = <<>>
    /\ y_test = <<>>
    /\ loads = 0
    /\ prev = EmptyReturn
    /\ InitNoClusterer
    /\ lr_model = <<>>
    /\ acc_lr = <<>>
    /\ kmeans_labels \in [1 .. Len(X_scaled) -> 0 .. (ChartClusters - 1)]
    /\ fs = {"output"}
    /\ open_figs = 0
    /\ chart = "simple"
    /\ output_path \in {"", "simple"}
    /\ clusters_left = <<>>
    /\ drawn = {}
    /\ outlined = {}
    /\ report = NoReport

NextChart ==
    \/ Figure
    \/ ScatterCluster
    \/ OutlineCluster
    \/ Axes
    \/ Save
    \/ Close

SpecChart == InitChart /\ [][NextChart]_vars

\* ---------------------------------------- specification: the clusterer

PointSeqs == UNION { [1 .. n -> { Row(r) : r \in RawRows }] : n \in 1 .. MaxPoints }

LabelSeqs == UNION { [1 .. n -> Classes] : n \in 1 .. MaxPoints }

\* One point more than the vote's range(10) covers, all distinct: the
\* training set of a clusterer built with n_clusters = VoteRange + 1.
ManyPoints == [i \in 1 .. (VoteRange + 1) |-> Row(i - 1)]

\* True labels of ManyPoints: one class throughout, or the classes in turn.
ManyLabels ==
    { [i \in 1 .. (VoteRange + 1) |-> c] : c \in Classes }
        \cup { [i \in 1 .. (VoteRange + 1) |-> i % NClasses] }

\* The (training points, n_clusters) a clusterer is built and trained with.
ClustererInputs ==
    (PointSeqs \X (1 .. NClusters)) \cup { <<ManyPoints, VoteRange + 1>> }

\* A caller's accuracy call: any points, any true labels.
AccuracyCall ==
    \/ \E points \in PointSeqs, true_labels \in LabelSeqs :
          Accuracy(points, true_labels)
    \/ \E true_labels \in ManyLabels :
          Accuracy(ManyPoints, true_labels)

\* kmeans = KMeansClusterer(n_clusters=k); kmeans.train(X) for any training
\* points X, then one accuracy call.
InitClusterer ==
    /\ pc = "km_train"
    /\ done = <<>>
    /\ exc = ""
    /\ loader = DefaultLoader
    /\ digits = [data |-> <<>>, target |-> <<>>]
    /\ np_random = 0
    /\ X_reduced = <<>>
    /\ X_scaled = <<>>
    /\ ind_train = <<>>
    /\ ind_test = <<>>
    /\ \E built \in ClustererInputs :
          X_train = built[1] /\ n_clusters = built[2]
    /\ X_test = <<>>
    /\ y_train = <<>>
    /\ y_test = <<>>
    /\ loads = 0
    /\ prev = EmptyReturn
    /\ km_fitted = <<>>
    /\ labels_ = <<>>
    /\ eval_X = <<>>
    /\ eval_y = <<>>
    /\ vote_labels = <<>>
    /\ acc_km = NoResult
    /\ InitNoMain

NextClusterer ==
    \/ Train
    \/ AccuracyCall

SpecClusterer == InitClusterer /\ [][NextClusterer]_vars

\* ------------------------------------------------- claims: the loader

RECURSIVE SeqToBag(_)
SeqToBag(s) ==
    IF s = <<>> THEN EmptyBag ELSE SetToBag({Head(s)}) (+) SeqToBag(Tail(s))

\* The samples of (Xs, ys) as a bag of <<feature row, label>> pairs.
PairBag(Xs, ys) == SeqToBag([i \in 1 .. Len(Xs) |-> <<Xs[i], ys[i]>>])

\* C1: whenever load_data returns, every sample of (X_scaled, y) is in
\* exactly one of Train and Test: the index sets are disjoint and cover
\* 1..n without repeats, the sizes add up, each returned row is paired with
\* the label of the sample it came from, and Train and Test together hold
\* the same <<row, label>> pairs as the full set, each as often.
C1_TrainTestPartition ==
    pc = "load_returned" =>
        /\ Len(X_train) = Len(y_train)
        /\ Len(X_test) = Len(y_test)
        /\ Len(X_train) = Len(ind_train)
        /\ Len(X_test) = Len(ind_test)
        /\ Len(X_train) + Len(X_test) = Len(X_scaled)
        /\ Range(ind_train) \cap Range(ind_test) = {}
        /\ Range(ind_train) \cup Range(ind_test) = 1 .. Len(X_scaled)
        /\ \A k \in 1 .. Len(ind_train) :
              /\ X_train[k] = X_scaled[ind_train[k]]
              /\ y_train[k] = digits.target[ind_train[k]]
        /\ \A k \in 1 .. Len(ind_test) :
              /\ X_test[k] = X_scaled[ind_test[k]]
              /\ y_test[k] = digits.target[ind_test[k]]
        /\ PairBag(X_train, y_train) (+) PairBag(X_test, y_test)
              = PairBag(X_scaled, digits.target)

\* C1 witness: a fraction inside (0,1) was split into a non-empty Train and a
\* non-empty Test, and two samples with the same feature row and different
\* labels went to different sides.
C1_Witness ==
    /\ pc = "load_returned"
    /\ loader.test_size.kind = "f"
    /\ Len(X_test) >= 1
    /\ Len(X_train) >= 2
    /\ \E i \in Range(ind_train), j \in Range(ind_test) :
          /\ X_scaled[i] = X_scaled[j]
          /\ digits.target[i] # digits.target[j]

\* The value of a test_size argument is 0 or 1, whatever its Python type.
IsZeroOrOne(t) == t.num = 0 \/ t.num = t.den

\* C6: a loader whose test_size equals 0 or 1 never returns a Train/Test
\* pair from load_data.
C6_RejectsZeroAndOne ==
    IsZeroOrOne(loader.test_size) => pc # "load_returned"

\* C8: a second load_data on the same loader (same random_state, same
\* test_size, same input order) returns the partition the first one
\* returned: the same samples in the same subsets in the same order,
\* whatever happened to the process-wide generator in between.
C8_SplitDeterministic ==
    (pc = "load_returned" /\ prev.set) => Returned = prev

\* C8 witness: the second call returned a real partition after the
\* process-wide generator had moved.
C8_Witness ==
    /\ pc = "load_returned"
    /\ prev.set
    /\ np_random # 0
    /\ Len(ind_test) >= 1
    /\ Len(ind_train) >= 2

\* ------------------------------------------------------ claims: main()

\* A chart operation is between its figure creation and its close.
InChart == pc \in {"draw", "hull", "save", "close"}

\* C2: outside the body of a chart operation no figure is open: each chart
\* call has closed the figure it opened, however it was left.
C2_FigureReleasedOnEveryExit == ~InChart => open_figs = 0

\* The stages main runs before it opens the report file.
BeforeReport ==
    {"load_digits", "pca", "scale", "split", "lr_train", "lr_accuracy",
     "km_train", "km_accuracy", "combined", "scatter", "simple"}

\* C4: the report file exists only when the load, both trainings, both
\* accuracy computations and all three chart calls have completed; a run
\* that raised before the report was opened has no report file.
C4_ReportOnlyAfterAllStages ==
    /\ "results" \in fs => BeforeReport \subseteq Range(done)
    /\ (pc = "raised" /\ ~(BeforeReport \subseteq Range(done))) => "results" \notin fs

\* C4 witness: the report file was created, after three chart files.
C4_Witness ==
    /\ "results" \in fs
    /\ {"combined", "scatter", "simple"} \subseteq fs
    /\ pc = "exit"

\* C5: the comparison line of a written report names Logistic Regression
\* when acc_lr > acc_km, K-Means when acc_km > acc_lr, and no model when the
\* two scores are equal.
C5_ComparisonNamesTheHigher ==
    pc = "exit" =>
        /\ Greater(report.acc_lr, report.acc_km) => report.better = "Logistic Regression"
        /\ Greater(report.acc_km, report.acc_lr) => report.better = "K-Means"
        /\ (~Greater(report.acc_lr, report.acc_km) /\ ~Greater(report.acc_km, report.acc_lr))
              => report.better = ""

\* The component count is below 1 or above the raw feature dimension.
OutOfRange(k) == k < 1 \/ k > RawFeatureDim

\* C7: with a component count below 1 or above 64 the run ends in a
\* ValueError raised inside load_data before the split; load_data returns
\* nothing, and neither model is ever trained.
C7_BadComponentCountFailsEarly ==
    OutOfRange(loader.n_components) =>
        /\ Range(done) \subseteq {"load_digits", "pca"}
        /\ pc \in {"makedirs", "load_digits", "pca", "scale", "raised"}
        /\ pc = "raised" => exc = "ValueError"
        /\ X_scaled = <<>> /\ X_train = <<>> /\ X_test = <<>>
        /\ lr_model = <<>> /\ km_fitted = <<>>

\* C7 witness: a count above the raw feature dimension ended the run.
C7_Witness ==
    /\ loader.n_components > RawFeatureDim
    /\ pc = "raised"
    /\ exc = "ValueError"

\* The accuracy call under consideration returned or raised, on arguments of
\* equal length (one true label per point).
Scored == acc_km # NoResult /\ Len(eval_X) = Len(eval_y)

\* The cluster of each evaluated point.
EvalClusters == KMeansPredict(km_fitted, eval_X)

\* Members of cluster c among the evaluated points carrying true label v.
Members(c, v) ==
    Cardinality({ i \in 1 .. Len(eval_X) : EvalClusters[i] = c /\ eval_y[i] = v })

\* The size of the largest label group in cluster c: the points a
\* majority-vote label gets right there.
MajorityCount(c) ==
    CHOOSE m \in 0 .. Len(eval_X) :
        /\ \A v \in Classes : Members(c, v) <= m
        /\ \E v \in Classes : Members(c, v) = m

RECURSIVE SumMajority(_)
SumMajority(k) == IF k = 0 THEN 0 ELSE MajorityCount(k - 1) + SumMajority(k - 1)

\* C3: the score of accuracy(points, true_labels) is the exact-match
\* fraction of the majority-vote labelling of the given points, each point
\* voting in the cluster it is predicted into.
C3_AccuracyOfGivenPoints ==
    Scored =>
        /\ acc_km.raised = ""
        /\ acc_km.value = <<SumMajority(n_clusters), Len(eval_X)>>

\* C9: a score of 1.0 means no cluster of the evaluated points holds two
\* different true labels, and every score is a fraction in [0,1].
C9_FullScoreOnlyIfPure ==
    (Scored /\ acc_km.raised = "") =>
        /\ 0 <= acc_km.value[1]
        /\ acc_km.value[1] <= acc_km.value[2]
        /\ acc_km.value[2] > 0
        /\ acc_km.value[1] = acc_km.value[2] =>
              \A i, j \in 1 .. Len(eval_X) :
                  EvalClusters[i] = EvalClusters[j] => eval_y[i] = eval_y[j]

\* ------------------------------------------------- claims: the charts

\* C10: the hull step of plot_simple_clusters never raises and the loop goes
\* on to the next cluster (and from there to the save and the close); with 2
\* or fewer members, or with members on one line, no outline is added; an
\* outline is added only for a cluster of more than two members.
C10_DegenerateHullSkipped ==
    [][ pc = "hull" =>
          LET cluster_id == Head(clusters_left)
          IN  /\ pc' = "draw"
              /\ exc' = exc
              /\ open_figs' = open_figs
              /\ clusters_left' = Tail(clusters_left)
              /\ (\/ ClusterSize(kmeans_labels, cluster_id) <= 2
                  \/ HullFails(X_scaled, kmeans_labels, cluster_id))
                    => outlined' = outlined
              /\ outlined' # outlined =>
                    /\ ClusterSize(kmeans_labels, cluster_id) > 2
                    /\ outlined' = outlined \cup {cluster_id} ]_vars

\* C10 witness: the call returned with its figure closed and its file
\* written after skipping the outline of a cluster of three points on one
\* line and that of a cluster of at most two points.
C10_Witness ==
    /\ chart = "simple"
    /\ pc = "chart_returned"
    /\ open_figs = 0
    /\ "simple" \in fs
    /\ \E c \in drawn \ outlined :
          /\ ClusterSize(kmeans_labels, c) > 2
          /\ HullFails(X_scaled, kmeans_labels, c)
    /\ \E c \in drawn \ outlined : ClusterSize(kmeans_labels, c) <= 2

\* C11: plot_simple_clusters plots only points whose cluster index is 0 or 1:
\* whatever kmeans_labels holds, no cluster of index 2 or higher is drawn or
\* outlined, not even when cluster 0 or cluster 1 has no member.
C11_OnlyClustersZeroAndOne ==
    chart = "simple" => (drawn \cup outlined) \subseteq {0, 1}

\* ------------------------------------------- claims: the cluster vote

\* An accuracy call was made with one true label per training point.
VotedOnTraining == acc_km # NoResult /\ Len(eval_y) = Len(labels_)

\* Training points of cluster c carrying true label v in the call.
VoteMembers(c, v) ==
    Cardinality({ i \in 1 .. Len(labels_) : labels_[i] = c /\ eval_y[i] = v })

\* C12: in KMeansClusterer.accuracy, whatever n_clusters was configured, the
\* call raises nothing and every member of every non-empty cluster
\* 0..n_clusters-1 is assigned a most frequent true label of that cluster's
\* members; no non-empty cluster keeps the initial label 0 in place of its
\* majority label.
C12_EveryClusterGetsItsMajority ==
    VotedOnTraining =>
        /\ acc_km.raised = ""
        /\ Len(vote_labels) = Len(labels_)
        /\ \A c \in 0 .. (n_clusters - 1) :
              \A i \in 1 .. Len(labels_) :
                  labels_[i] = c =>
                      \A w \in Range(eval_y) :
                          VoteMembers(c, vote_labels[i]) >= VoteMembers(c, w)

====
